---- MODULE Spec2Model ----
(***************************************************************************)
(* Model of the dependency-aware parallel runner of playbook_runner.py:    *)
(* job metadata, dependency-pattern parsing and matching, construction of  *)
(* the dependency graph, and the scheduling loop of _run_parallel with its *)
(* thread-pool workers.                                                    *)
(*                                                                         *)
(* Text is modelled as a sequence of symbols (a role name, a host name,    *)
(* "@", ":vars=", JSON punctuation, ...), so that splitting, membership    *)
(* and concatenation are computed as the code computes them.  Python       *)
(* dicts are functions with a finite domain; None / JSON null is the       *)
(* symbol Null.  Job indices are 0-based as in the code.                   *)
(***************************************************************************)
EXTENDS Integers, Sequences, FiniteSets, TLC

VARIABLES
    jobs,             \* parameter jobs: sequence of [role, host, vars]
    deps_raw,         \* parameter deps_raw: sequence of <<key, prerequisites>>
    max_parallel,     \* parameter max_parallel
    dry_run,          \* parameter dry_run
    parallel,         \* run_playbook: parameter parallel, rebound by a dry run
    engine_invoked,   \* whether ansible_runner.run has been called
    pc,               \* position of the control thread
    missing_targets,  \* _build_dependency_graph: missing_targets
    missing_deps,     \* _build_dependency_graph: missing_deps
    in_degree,        \* in_degree[idx]
    edges,            \* edges[idx]: list of dependents
    ready,            \* deque of ready job indices
    results,          \* list of <<label, rc>>
    running,          \* set of running indices
    launched,         \* set of launched indices
    stop_submissions, \* global stop flag
    worker_count,     \* size of the thread pool
    future_map,       \* in-flight futures: idx -> state of the future
    timings,          \* timings[idx] = [start, end, duration]
    clock,            \* datetime.now() as seen by the control thread
    ret,              \* <<value returned by _run_parallel>>, <<>> before it returns
    summary,          \* the "Succeeded" lines of the summary: <<label, duration>>
    fn_args,          \* arguments of a pure function under test
    fn_result         \* its result

vars == <<jobs, deps_raw, max_parallel, dry_run, parallel, engine_invoked, pc, missing_targets, missing_deps,
          in_degree, edges, ready, results, running, launched,
          stop_submissions, worker_count, future_map, timings, clock, ret,
          summary, fn_args, fn_result>>

ctrl == <<missing_targets, missing_deps, in_degree, edges, ready, results,
          running, launched, stop_submissions, worker_count, timings, clock,
          ret>>

-----------------------------------------------------------------------------
(* Bounds of the model                                                     *)

MaxJobs == 3
MaxHostJobs == 2
MaxDecls == 2
MaxPrereqs == 2
MaxSchedPrereqs == 1
MaxParallel == 2
MaxPlays == 1
MaxRoleEntries == 2
MaxFairJobs == 2

-----------------------------------------------------------------------------
(* Values                                                                  *)

Null == "null"
EmptyDict == <<>>

Get(d, k) == IF k \in DOMAIN d THEN d[k] ELSE Null

Range(s) == {s[i] : i \in 1..Len(s)}

Max(a, b) == IF a >= b THEN a ELSE b

Min(a, b) == IF a <= b THEN a ELSE b

Indices(js) == 0..(Len(js) - 1)

Job(js, idx) == js[idx + 1]

-----------------------------------------------------------------------------
(* _prepare_job_metadata                                                   *)

BaseLabel(job) == job.role \o <<"@">> \o job.host

\* counts[base_label] after the loop body has run for idx
RunCount(js, idx) ==
    Cardinality({j \in 0..idx : BaseLabel(Job(js, j)) = BaseLabel(Job(js, idx))})

\* mutant: the run number is left out of the display label
DisplayLabelBase(js, idx) == BaseLabel(Job(js, idx))

\* log_label = f"{base_label}#{run_idx}" with run_idx = counts[base_label] - 1
LogLabel(js, idx) ==
    BaseLabel(Job(js, idx)) \o <<"#", ToString(RunCount(js, idx) - 1)>>

\* the characters of the modelled names that are neither alphanumeric nor
\* one of "-", "_", "@"
UnsafeChars == {"#", "/", ".", " ", "(", ")"}

\* "".join(c if c.isalnum() or c in "-_@" else "_" for c in ...) on one symbol
SafeSymbol(sym) ==
    IF sym \in UnsafeChars THEN "_"
    ELSE IF sym = " (run " THEN "__run_"
    ELSE sym

\* job_logs[idx], relative to log_dir
JobLog(js, idx) ==
    [i \in 1..Len(LogLabel(js, idx)) |-> SafeSymbol(LogLabel(js, idx)[i])] \o <<".log">>

job_logs(js) == [idx \in Indices(js) |-> JobLog(js, idx)]

DisplayLabel(js, idx) ==
    LET base_label == BaseLabel(Job(js, idx))
        run_idx == RunCount(js, idx)
    IN IF run_idx = 1
       THEN base_label
       ELSE base_label \o <<" (run ", ToString(run_idx), ")">>

base_labels(js) == [idx \in Indices(js) |-> BaseLabel(Job(js, idx))]

display_labels(js) == [idx \in Indices(js) |-> DisplayLabel(js, idx)]

\* the ascending list of the indices in S
RECURSIVE Ascending(_)
Ascending(S) ==
    IF S = {} THEN <<>>
    ELSE LET m == CHOOSE x \in S : \A y \in S : x <= y
         IN <<m>> \o Ascending(S \ {m})

\* role_to_ids.get(role, [])
role_to_ids(js, role) == Ascending({idx \in Indices(js) : Job(js, idx).role = role})

RoleKnown(js, role) == \E idx \in Indices(js) : Job(js, idx).role = role

-----------------------------------------------------------------------------
(* _parse_target                                                           *)

Contains(s, sym) == \E i \in 1..Len(s) : s[i] = sym

FirstIndex(s, sym) == CHOOSE i \in 1..Len(s) : s[i] = sym /\ \A j \in 1..(i - 1) : s[j] # sym

\* s.split(sym, 1)[0]
Before(s, sym) == IF Contains(s, sym) THEN SubSeq(s, 1, FirstIndex(s, sym) - 1) ELSE s

\* s.split(sym, 1)[1]
After(s, sym) == SubSeq(s, FirstIndex(s, sym) + 1, Len(s))

JsonScalars == {"v", "w", Null}

\* members of a JSON object text: key ":" value, separated by ","; a key
\* that occurs twice keeps its last value
RECURSIVE JsonMembers(_)
JsonMembers(t) ==
    IF Len(t) < 3 \/ t[2] # ":" \/ t[1] \in {"{", "}", "[", "]", ":", ","} \/ t[3] \notin JsonScalars
    THEN [ok |-> FALSE, obj |-> EmptyDict]
    ELSE IF Len(t) = 3
    THEN [ok |-> TRUE, obj |-> (t[1] :> t[3])]
    ELSE IF t[4] # ","
    THEN [ok |-> FALSE, obj |-> EmptyDict]
    ELSE LET rest == JsonMembers(SubSeq(t, 5, Len(t)))
         IN [ok |-> rest.ok, obj |-> (rest.obj @@ (t[1] :> t[3]))]

\* mutant: the members read before the text stops being an object are kept
JsonLoadsDictPartial(t) ==
    IF Len(t) >= 4 /\ t[1] = "{" /\ t[3] = ":" /\ t[4] \in JsonScalars
    THEN (t[2] :> t[4])
    ELSE EmptyDict

\* json.loads followed by isinstance(vars_filter, dict): the object, or {} when
\* the text is not valid JSON or is JSON that is not an object
JsonLoadsDict(t) ==
    IF Len(t) >= 2 /\ t[1] = "{" /\ t[Len(t)] = "}"
    THEN IF Len(t) = 2 THEN EmptyDict
         ELSE LET m == JsonMembers(SubSeq(t, 2, Len(t) - 1))
              IN IF m.ok THEN m.obj ELSE EmptyDict
    ELSE EmptyDict

_parse_target(raw) ==
    IF Contains(raw, ":vars=")
    THEN [base |-> Before(raw, ":vars="),
          vars |-> JsonLoadsDict(After(raw, ":vars="))]
    ELSE [base |-> raw, vars |-> EmptyDict]

-----------------------------------------------------------------------------
(* _vars_match                                                             *)

_vars_match(job_vars, filter_vars) ==
    IF filter_vars = EmptyDict THEN TRUE
    ELSE \A k \in DOMAIN filter_vars : Get(job_vars, k) = filter_vars[k]

-----------------------------------------------------------------------------
(* _build_dependency_graph                                                 *)

\* mutant: the host of a role@host base is ignored
PoolRoleOnly(js, base) == role_to_ids(js, Before(base, "@"))

\* [idx for idx in range(len(jobs)) if base_labels[idx] == base], or
\* role_to_ids.get(base, [])
Pool(js, base) ==
    IF Contains(base, "@")
    THEN Ascending({idx \in Indices(js) : base_labels(js)[idx] = base})
    ELSE role_to_ids(js, base)

\* [idx for idx in pool if _vars_match(jobs[idx]["vars"], filter_vars)]
Matching(js, pool, filter_vars) ==
    SelectSeq(pool, LAMBDA idx : _vars_match(Job(js, idx).vars, filter_vars))

\* mutant: each prerequisite is linked to the first matching target only
RECURSIVE AddEdgesFirstTarget(_, _, _, _)
AddEdgesFirstTarget(g, target_ids, dep_ids, n) ==
    IF n >= Len(dep_ids) THEN g
    ELSE LET target_id == target_ids[1]
             dep_id == dep_ids[n + 1]
         IN AddEdgesFirstTarget([g EXCEPT !.edges[dep_id] = Append(@, target_id),
                                          !.in_degree[target_id] = @ + 1],
                                target_ids, dep_ids, n + 1)

\* mutant: in_degree counts an edge only the first time it is added
RECURSIVE AddEdgesCountDistinct(_, _, _, _)
AddEdgesCountDistinct(g, target_ids, dep_ids, n) ==
    IF n >= Len(target_ids) * Len(dep_ids) THEN g
    ELSE LET target_id == target_ids[(n \div Len(dep_ids)) + 1]
             dep_id == dep_ids[(n % Len(dep_ids)) + 1]
             seen == \E k \in 1..Len(g.edges[dep_id]) : g.edges[dep_id][k] = target_id
         IN AddEdgesCountDistinct(
                [g EXCEPT !.edges[dep_id] = Append(@, target_id),
                          !.in_degree[target_id] = IF seen THEN @ ELSE @ + 1],
                target_ids, dep_ids, n + 1)

\* the double loop over target_ids and dep_ids, n pairs already done
RECURSIVE AddEdges(_, _, _, _)
AddEdges(g, target_ids, dep_ids, n) ==
    IF n >= Len(target_ids) * Len(dep_ids) THEN g
    ELSE LET target_id == target_ids[(n \div Len(dep_ids)) + 1]
             dep_id == dep_ids[(n % Len(dep_ids)) + 1]
         IN AddEdges([g EXCEPT !.edges[dep_id] = Append(@, target_id),
                               !.in_degree[target_id] = @ + 1],
                     target_ids, dep_ids, n + 1)

\* mutant: a prerequisite without any job is only warned about
ProcessDepLenient(js, g, target_ids, dep_raw) ==
    LET p == _parse_target(dep_raw)
        dep_pool == Pool(js, p.base)
        dep_ids == Matching(js, dep_pool, p.vars)
    IN IF dep_pool = <<>>
       THEN [g EXCEPT !.missing_targets = Append(@, dep_raw)]
       ELSE IF dep_ids = <<>>
       THEN [g EXCEPT !.missing_deps = Append(@, dep_raw)]
       ELSE AddEdges(g, target_ids, dep_ids, 0)

\* mutant: role@host without a job is a missing dependency whatever the role
ProcessDepStrictHost(js, g, target_ids, dep_raw) ==
    LET p == _parse_target(dep_raw)
        dep_pool == Pool(js, p.base)
        dep_ids == Matching(js, dep_pool, p.vars)
    IN IF dep_pool = <<>>
       THEN [g EXCEPT !.missing_deps = Append(@, dep_raw)]
       ELSE IF dep_ids = <<>>
       THEN [g EXCEPT !.missing_deps = Append(@, dep_raw)]
       ELSE AddEdges(g, target_ids, dep_ids, 0)

\* the body of "for dep_raw in raw_deps"
ProcessDep(js, g, target_ids, dep_raw) ==
    LET p == _parse_target(dep_raw)
        dep_pool == Pool(js, p.base)
        dep_role == Before(p.base, "@")
        dep_ids == Matching(js, dep_pool, p.vars)
    IN IF Contains(p.base, "@") /\ dep_pool = <<>> /\ RoleKnown(js, dep_role)
       THEN [g EXCEPT !.missing_targets = Append(@, dep_raw)]
       ELSE IF dep_pool = <<>>
       THEN [g EXCEPT !.missing_deps = Append(@, dep_raw)]
       ELSE IF dep_ids = <<>>
       THEN [g EXCEPT !.missing_deps = Append(@, dep_raw)]
       ELSE AddEdges(g, target_ids, dep_ids, 0)

RECURSIVE ProcessDeps(_, _, _, _, _)
ProcessDeps(js, g, target_ids, raw_deps, i) ==
    IF i > Len(raw_deps) THEN g
    ELSE ProcessDeps(js, ProcessDep(js, g, target_ids, raw_deps[i]), target_ids, raw_deps, i + 1)

\* mutant: the prerequisites of a declaration without target are still examined
ProcessDeclNoSkip(js, g, decl) ==
    LET raw_key == decl[1]
        raw_deps == decl[2]
        p == _parse_target(raw_key)
        target_ids == Matching(js, Pool(js, p.base), p.vars)
    IN IF target_ids = <<>>
       THEN ProcessDeps(js, [g EXCEPT !.missing_targets = Append(@, raw_key)],
                        target_ids, raw_deps, 1)
       ELSE ProcessDeps(js, g, target_ids, raw_deps, 1)

\* the body of "for raw_key, raw_deps in deps_map.items()"
ProcessDecl(js, g, decl) ==
    LET raw_key == decl[1]
        raw_deps == decl[2]
        p == _parse_target(raw_key)
        target_ids == Matching(js, Pool(js, p.base), p.vars)
    IN IF target_ids = <<>>
       THEN [g EXCEPT !.missing_targets = Append(@, raw_key)]
       ELSE ProcessDeps(js, g, target_ids, raw_deps, 1)

RECURSIVE ProcessDecls(_, _, _, _)
ProcessDecls(js, g, deps, i) ==
    IF i > Len(deps) THEN g
    ELSE ProcessDecls(js, ProcessDecl(js, g, deps[i]), deps, i + 1)

EmptyGraph(js) ==
    [in_degree |-> [idx \in Indices(js) |-> 0],
     edges |-> [idx \in Indices(js) |-> <<>>],
     missing_targets |-> <<>>,
     missing_deps |-> <<>>]

\* the tables after the loop over the declarations; the function returns
\* (None, None) when missing_deps is not empty, (in_degree, edges) otherwise
_build_dependency_graph(js, deps) == ProcessDecls(js, EmptyGraph(js), deps, 1)

GraphIsNone(g) == g.missing_deps # <<>>

-------------------------------------------------------------------------------------------------------------------------------------------------
(* Inputs                                                                  *)

SeqsUpTo(S, n) == UNION {[1..k -> S] : k \in 0..n}

\* a job as _build_jobs makes it
MkJob(role, host) == [role |-> <<role>>, host |-> <<host>>, vars |-> EmptyDict]

\* declarations: a mapping (no key occurs twice) from a pattern to a list of
\* patterns, in the order of the file
DepsOver(keys, prereqs, ndecls, nprereqs) ==
    {d \in SeqsUpTo(keys \X SeqsUpTo(prereqs, nprereqs), ndecls) :
        \A i, j \in 1..Len(d) : i # j => d[i][1] # d[j][1]}

\* max_parallel: negative, zero (both clamped to one worker) and the largest
ParallelRange == {0 - 1, 0, MaxParallel}

\* two roles on one host, each declaration naming roles: forks, joins,
\* cycles and self-edges over up to MaxJobs jobs; when all jobs have the same
\* role, the other role is a missing target or a missing dependency
RolePatterns == {<<"role1">>, <<"role2">>}

SchedInputs ==
    [jobs : SeqsUpTo({MkJob("role1", "mac1"), MkJob("role2", "mac1")}, MaxJobs) \ {<<>>},
     deps : DepsOver(RolePatterns, RolePatterns, MaxDecls, MaxSchedPrereqs),
     mp : ParallelRange]

\* two hosts, a declaration for role2 whose prerequisites name a role, a role
\* on a host, or a role that has no job
HostInputs ==
    [jobs : SeqsUpTo({MkJob("role1", "mac1"), MkJob("role2", "mac1"),
                      MkJob("role1", "mac2")}, MaxHostJobs) \ {<<>>},
     deps : DepsOver({<<"role2">>},
                     {<<"role1">>, <<"role1", "@", "mac2">>, <<"missingrole">>},
                     MaxDecls, MaxPrereqs),
     mp : {MaxParallel}]

\* three roles on one host, each at most once, with declarations for role2 and
\* role3: chains, and forks whose dependents are declared in any order
OrderInputs ==
    [jobs : {js \in SeqsUpTo({MkJob("role1", "mac1"), MkJob("role2", "mac1"),
                              MkJob("role3", "mac1")}, MaxJobs) \ {<<>>} :
                \A i, j \in 1..Len(js) : i # j => js[i] # js[j]},
     deps : DepsOver({<<"role2">>, <<"role3">>}, RolePatterns, MaxDecls, MaxSchedPrereqs),
     mp : ParallelRange]

Inputs == SchedInputs \cup HostInputs \cup OrderInputs

\* what a task can end with: a returned exit status, or a raised exception
Outcomes ==
    {[state |-> "returned", rc |-> 0], [state |-> "returned", rc |-> 2],
     [state |-> "raised", rc |-> 0]}

---------
(* _run_parallel                                                           *)

Init ==
    /\ \E in \in Inputs :
        /\ jobs = in.jobs
        /\ deps_raw = in.deps
        /\ max_parallel = in.mp
    /\ dry_run = FALSE
    /\ parallel = TRUE
    /\ engine_invoked = FALSE
    /\ pc = "start"
    /\ missing_targets = <<>>
    /\ missing_deps = <<>>
    /\ in_degree = <<>>
    /\ edges = <<>>
    /\ ready = <<>>
    /\ results = <<>>
    /\ running = {}
    /\ launched = {}
    /\ stop_submissions = FALSE
    /\ worker_count = 0
    /\ future_map = <<>>
    /\ timings = <<>>
    /\ clock = 0
    /\ ret = <<>>
    /\ summary = <<>>
    /\ fn_args = <<>>
    /\ fn_result = <<>>

\* mutant: a job with one unresolved prerequisite also starts ready
InitialReadyLoose(deg) == SelectSeq(Ascending(DOMAIN deg), LAMBDA idx : deg[idx] <= 1)

\* deque([idx for idx, deg in in_degree.items() if deg == 0])
InitialReady(deg) == SelectSeq(Ascending(DOMAIN deg), LAMBDA idx : deg[idx] = 0)

WorkerCount(mp, n) == Max(1, Min(mp, n))

\* from the call to the first test of the scheduling loop: metadata, graph,
\* initial ready queue, pool size
Start ==
    /\ pc = "start"
    /\ \E g \in {_build_dependency_graph(jobs, deps_raw)} :
          /\ missing_targets' = g.missing_targets
          /\ missing_deps' = g.missing_deps
          /\ IF GraphIsNone(g)
             THEN /\ ret' = <<1>>
                  /\ pc' = "done"
                  /\ UNCHANGED <<in_degree, edges, ready, worker_count>>
             ELSE /\ in_degree' = g.in_degree
                  /\ edges' = g.edges
                  /\ ready' = InitialReady(g.in_degree)
                  /\ IF InitialReady(g.in_degree) = <<>>
                     THEN /\ ret' = <<1>>
                          /\ pc' = "done"
                          /\ UNCHANGED worker_count
                     ELSE /\ worker_count' = WorkerCount(max_parallel, Len(jobs))
                          /\ pc' = "loop"
                          /\ UNCHANGED ret
    /\ UNCHANGED <<jobs, deps_raw, max_parallel, summary, dry_run, parallel, engine_invoked, results, running, launched,
                   stop_submissions, future_map, timings, clock, fn_args, fn_result>>

InFlight == DOMAIN future_map

\* mutant: the stop flag is not tested
CanSubmitIgnoringStop ==
    /\ ready # <<>>
    /\ Cardinality(DOMAIN future_map) < worker_count

\* mutant: one submission more than the pool has workers
CanSubmitOverfull ==
    /\ ready # <<>>
    /\ Cardinality(DOMAIN future_map) <= worker_count
    /\ ~stop_submissions

\* the condition of the inner while loop
CanSubmit ==
    /\ ready # <<>>
    /\ Cardinality(InFlight) < worker_count
    /\ ~stop_submissions

\* mutant: the newest entry of the ready queue is taken (pop instead of popleft)
SubmitLifo ==
    /\ pc = "loop"
    /\ CanSubmit
    /\ LET idx == ready[Len(ready)]
       IN /\ ready' = SubSeq(ready, 1, Len(ready) - 1)
          /\ timings' = (idx :> [start |-> clock, end |-> <<>>, duration |-> <<>>]) @@ timings
          /\ future_map' = (idx :> [state |-> "running", rc |-> 0]) @@ future_map
          /\ launched' = launched \cup {idx}
          /\ running' = running \cup {idx}
    /\ clock' = clock + 1
    /\ UNCHANGED <<jobs, deps_raw, max_parallel, summary, dry_run, parallel, engine_invoked, pc, missing_targets, missing_deps,
                   in_degree, edges, results, stop_submissions, worker_count, ret,
                   fn_args, fn_result>>

\* mutant: the submitted job is read at the head of the queue but not removed
SubmitKeep ==
    /\ pc = "loop"
    /\ CanSubmit
    /\ LET idx == Head(ready)
       IN /\ ready' = ready
          /\ timings' = (idx :> [start |-> clock, end |-> <<>>, duration |-> <<>>]) @@ timings
          /\ future_map' = (idx :> [state |-> "running", rc |-> 0]) @@ future_map
          /\ launched' = launched \cup {idx}
          /\ running' = running \cup {idx}
    /\ clock' = clock + 1
    /\ UNCHANGED <<jobs, deps_raw, max_parallel, summary, dry_run, parallel, engine_invoked, pc, missing_targets, missing_deps,
                   in_degree, edges, results, stop_submissions, worker_count, ret,
                   fn_args, fn_result>>

\* one iteration of the inner while loop: popleft, submit_job, running.add
Submit ==
    /\ pc = "loop"
    /\ CanSubmit
    /\ LET idx == Head(ready)
       IN /\ ready' = Tail(ready)
          /\ timings' = (idx :> [start |-> clock, end |-> <<>>, duration |-> <<>>]) @@ timings
          /\ future_map' = (idx :> [state |-> "running", rc |-> 0]) @@ future_map
          /\ launched' = launched \cup {idx}
          /\ running' = running \cup {idx}
    /\ clock' = clock + 1
    /\ UNCHANGED <<jobs, deps_raw, max_parallel, summary, dry_run, parallel, engine_invoked, pc, missing_targets, missing_deps,
                   in_degree, edges, results, stop_submissions, worker_count, ret,
                   fn_args, fn_result>>

\* what _run_role_host can end with: in a dry run it sleeps, writes the log and
\* returns 0 without calling the engine
TaskOutcomes(dry) == IF dry THEN {[state |-> "returned", rc |-> 0]} ELSE Outcomes

\* mutant: the task body records its own result in the shared list
TaskRunRecording(idx) ==
    /\ idx \in InFlight
    /\ future_map[idx].state = "running"
    /\ \E o \in TaskOutcomes(dry_run) :
          /\ future_map' = [future_map EXCEPT ![idx] = o]
          /\ results' = Append(results, <<display_labels(jobs)[idx], o.rc>>)
    /\ engine_invoked' = (engine_invoked \/ ~dry_run)
    /\ UNCHANGED <<jobs, deps_raw, max_parallel, summary, dry_run, parallel, pc, missing_targets, missing_deps,
                   in_degree, edges, ready, running, launched,
                   stop_submissions, worker_count, timings, clock, ret,
                   fn_args, fn_result>>

\* a pool thread runs _run_role_host for job idx to its end
TaskRun(idx) ==
    /\ idx \in InFlight
    /\ future_map[idx].state = "running"
    /\ \E o \in TaskOutcomes(dry_run) : future_map' = [future_map EXCEPT ![idx] = o]
    /\ engine_invoked' = (engine_invoked \/ ~dry_run)
    /\ UNCHANGED <<jobs, deps_raw, max_parallel, summary, dry_run, parallel, pc, missing_targets, missing_deps,
                   in_degree, edges, ready, results, running, launched,
                   stop_submissions, worker_count, timings, clock, ret,
                   fn_args, fn_result>>

\* the rc recorded for a finished future
RecordedRc(f) == IF f.state = "raised" THEN 1 ELSE f.rc

\* mutant: only a non-zero exit status stops the submissions
IsFailureRcOnly(f) == f.state = "returned" /\ f.rc # 0

\* whether the completion handler sets stop_submissions
IsFailure(f) == f.state = "raised" \/ f.rc # 0

\* mutant: a dependent is appended at each decrement
RECURSIVE ReleaseEager(_, _, _)
ReleaseEager(st, out, i) ==
    IF i > Len(out) THEN st
    ELSE LET dep == out[i]
             deg == st.in_degree[dep] - 1
         IN ReleaseEager([in_degree |-> [st.in_degree EXCEPT ![dep] = deg],
                          ready |-> Append(st.ready, dep)],
                         out, i + 1)

\* mutant: a dependent listed twice is decremented once
RECURSIVE ReleaseOnce(_, _, _)
ReleaseOnce(st, out, i) ==
    IF i > Len(out) THEN st
    ELSE IF \E j \in 1..(i - 1) : out[j] = out[i] THEN ReleaseOnce(st, out, i + 1)
    ELSE LET dep == out[i]
             deg == st.in_degree[dep] - 1
         IN ReleaseOnce([in_degree |-> [st.in_degree EXCEPT ![dep] = deg],
                         ready |-> IF deg = 0 THEN Append(st.ready, dep) ELSE st.ready],
                        out, i + 1)

\* "for dep in edges.get(idx, [])", i - 1 entries already done
RECURSIVE Release(_, _, _)
Release(st, out, i) ==
    IF i > Len(out) THEN st
    ELSE LET dep == out[i]
             deg == st.in_degree[dep] - 1
         IN Release([in_degree |-> [st.in_degree EXCEPT ![dep] = deg],
                     ready |-> IF deg = 0 THEN Append(st.ready, dep) ELSE st.ready],
                    out, i + 1)

\* the wait for the next completed future and its handling
Complete(idx) ==
    /\ pc = "loop"
    /\ ~CanSubmit
    /\ idx \in InFlight
    /\ future_map[idx].state # "running"
    /\ LET f == future_map[idx]
           st == Release([in_degree |-> in_degree, ready |-> ready], edges[idx], 1)
       IN /\ future_map' = [i \in InFlight \ {idx} |-> future_map[i]]
          /\ running' = running \ {idx}
          /\ results' = Append(results, <<display_labels(jobs)[idx], RecordedRc(f)>>)
          /\ timings' = [timings EXCEPT ![idx] =
                            [start |-> @.start, end |-> <<clock>>,
                             duration |-> <<clock - @.start>>]]
          /\ stop_submissions' = (stop_submissions \/ IsFailure(f))
          /\ in_degree' = st.in_degree
          /\ ready' = st.ready
    /\ clock' = clock + 1
    /\ UNCHANGED <<jobs, deps_raw, max_parallel, summary, dry_run, parallel, engine_invoked, pc, missing_targets, missing_deps,
                   edges, launched, worker_count, ret, fn_args, fn_result>>

\* "(not run)" entries for the indices from idx on
RECURSIVE NotRun(_, _, _)
NotRun(js, completed, idx) ==
    IF idx >= Len(js) THEN <<>>
    ELSE (IF display_labels(js)[idx] \in completed
          THEN <<>>
          ELSE << <<display_labels(js)[idx] \o <<" (not run)">>, 1>> >>)
         \o NotRun(js, completed, idx + 1)

\* mutant: every job is given a "(not run)" entry
FinalizedAll(js, res, stop) ==
    IF stop /\ Len(res) < Len(js)
    THEN res \o NotRun(js, {}, 0)
    ELSE res

\* the results list after the finalization block
Finalized(js, res, stop) ==
    IF stop /\ Len(res) < Len(js)
    THEN res \o NotRun(js, {res[i][1] : i \in 1..Len(res)}, 0)
    ELSE res

\* failed = [(label, rc) for label, rc in results if rc != 0]
Failed(res) == SelectSeq(res, LAMBDA r : r[2] # 0)

\* the lines under "Succeeded:": for each position i of results (from 0) with
\* rc 0, taken in ascending order, the label and timings[i]["duration"], left
\* out when timings has no entry i or its duration is None
RECURSIVE SucceededLines(_, _)
SucceededLines(res, tm) ==
    IF res = <<>> THEN <<>>
    ELSE LET i == Len(res) - 1
             r == res[Len(res)]
             front == SucceededLines(SubSeq(res, 1, Len(res) - 1), tm)
         IN IF r[2] = 0 /\ i \in DOMAIN tm /\ tm[i].duration # <<>>
            THEN Append(front, <<r[1], tm[i].duration[1]>>)
            ELSE front

\* mutant: the loop is left only when the ready queue is empty as well
FinishWhenDrained ==
    /\ pc = "loop"
    /\ ready = <<>>
    /\ InFlight = {}
    /\ results' = Finalized(jobs, results, stop_submissions)
    /\ ret' = IF Failed(Finalized(jobs, results, stop_submissions)) # <<>> THEN <<1>> ELSE <<0>>
    /\ summary' = SucceededLines(Finalized(jobs, results, stop_submissions), timings)
    /\ pc' = "done"
    /\ UNCHANGED <<jobs, deps_raw, max_parallel, dry_run, parallel, engine_invoked, missing_targets, missing_deps,
                   in_degree, edges, ready, running, launched, stop_submissions,
                   worker_count, future_map, timings, clock, fn_args, fn_result>>

\* the loop ends (nothing to submit, nothing in flight): finalization, summary
\* and return
Finish ==
    /\ pc = "loop"
    /\ ~CanSubmit
    /\ InFlight = {}
    /\ results' = Finalized(jobs, results, stop_submissions)
    /\ ret' = IF Failed(Finalized(jobs, results, stop_submissions)) # <<>> THEN <<1>> ELSE <<0>>
    /\ summary' = SucceededLines(Finalized(jobs, results, stop_submissions), timings)
    /\ pc' = "done"
    /\ UNCHANGED <<jobs, deps_raw, max_parallel, dry_run, parallel, engine_invoked, missing_targets, missing_deps,
                   in_degree, edges, ready, running, launched, stop_submissions,
                   worker_count, future_map, timings, clock, fn_args, fn_result>>

Next ==
    \/ Start
    \/ Submit
    \/ \E idx \in InFlight : TaskRun(idx)
    \/ \E idx \in InFlight : Complete(idx)
    \/ Finish

Spec == Init /\ [][Next]_vars

\* the steps of the control thread, which runs without waiting for anything
\* but the next completed future
ControlStep ==
    \/ Start
    \/ Submit
    \/ \E idx \in InFlight : Complete(idx)
    \/ Finish

\* two roles on one host, up to MaxFairJobs jobs: chains, cycles, self-edges,
\* missing targets and dependencies, one worker or more
FairInputs ==
    [jobs : SeqsUpTo({MkJob("role1", "mac1"), MkJob("role2", "mac1")}, MaxFairJobs) \ {<<>>},
     deps : DepsOver(RolePatterns, RolePatterns, MaxDecls, MaxSchedPrereqs),
     mp : {0, MaxParallel}]

InitFair ==
    /\ \E in \in FairInputs :
        /\ jobs = in.jobs
        /\ deps_raw = in.deps
        /\ max_parallel = in.mp
    /\ dry_run = FALSE
    /\ parallel = TRUE
    /\ engine_invoked = FALSE
    /\ pc = "start"
    /\ missing_targets = <<>>
    /\ missing_deps = <<>>
    /\ in_degree = <<>>
    /\ edges = <<>>
    /\ ready = <<>>
    /\ results = <<>>
    /\ running = {}
    /\ launched = {}
    /\ stop_submissions = FALSE
    /\ worker_count = 0
    /\ future_map = <<>>
    /\ timings = <<>>
    /\ clock = 0
    /\ ret = <<>>
    /\ summary = <<>>
    /\ fn_args = <<>>
    /\ fn_result = <<>>

NextFair ==
    \/ Start
    \/ Submit
    \/ \E idx \in InFlight : TaskRun(idx)
    \/ \E idx \in InFlight : Complete(idx)
    \/ Finish

\* the control thread keeps running, and every task that a pool thread has
\* been given runs to its end
SpecFair ==
    /\ InitFair
    /\ [][NextFair]_vars
    /\ WF_vars(ControlStep)
    /\ \A idx \in 0..MaxFairJobs : WF_vars(idx \in InFlight /\ TaskRun(idx))

-----------------------------------------------------------------------------
(* _run_parallel over jobs whose names hold label punctuation              *)

\* a job whose role and host are texts of several symbols
MkJobText(role, host) == [role |-> role, host |-> host, vars |-> EmptyDict]

\* hosts and roles as the playbook spells them, kept as they are by
\* normalize_hosts and extract_role: a host that ends like the display label
\* of a second run, and role names that differ in one character
LabelJobs ==
    {MkJob("role1", "mac1"),
     MkJobText(<<"role1">>, <<"mac1", " (run ", "2", ")">>),
     MkJobText(<<"nested", "/", "role3">>, <<"mac1">>),
     MkJobText(<<"nested", "_", "role3">>, <<"mac1">>)}

LabelInputs ==
    [jobs : SeqsUpTo(LabelJobs, MaxJobs) \ {<<>>},
     deps : {<<>>},
     mp : {1, MaxParallel}]

InitLabels ==
    /\ \E in \in LabelInputs :
        /\ jobs = in.jobs
        /\ deps_raw = in.deps
        /\ max_parallel = in.mp
    /\ dry_run = FALSE
    /\ parallel = TRUE
    /\ engine_invoked = FALSE
    /\ pc = "start"
    /\ missing_targets = <<>>
    /\ missing_deps = <<>>
    /\ in_degree = <<>>
    /\ edges = <<>>
    /\ ready = <<>>
    /\ results = <<>>
    /\ running = {}
    /\ launched = {}
    /\ stop_submissions = FALSE
    /\ worker_count = 0
    /\ future_map = <<>>
    /\ timings = <<>>
    /\ clock = 0
    /\ ret = <<>>
    /\ summary = <<>>
    /\ fn_args = <<>>
    /\ fn_result = <<>>

NextLabels ==
    \/ Start
    \/ Submit
    \/ \E idx \in InFlight : TaskRun(idx)
    \/ \E idx \in InFlight : Complete(idx)
    \/ Finish

SpecLabels == InitLabels /\ [][NextLabels]_vars

-----------------------------------------------------------------------------
(* run_playbook                                                            *)

\* the jobs and declarations of a playbook, which may hold no role at all
PlaybookInputs ==
    OrderInputs \cup [jobs : {<<>>}, deps : {<<>>}, mp : {MaxParallel}]

InitPlaybook ==
    /\ \E in \in PlaybookInputs :
        /\ jobs = in.jobs
        /\ deps_raw = in.deps
        /\ max_parallel = in.mp
    /\ dry_run \in BOOLEAN
    /\ parallel \in BOOLEAN
    /\ engine_invoked = FALSE
    /\ pc = "run_playbook"
    /\ missing_targets = <<>>
    /\ missing_deps = <<>>
    /\ in_degree = <<>>
    /\ edges = <<>>
    /\ ready = <<>>
    /\ results = <<>>
    /\ running = {}
    /\ launched = {}
    /\ stop_submissions = FALSE
    /\ worker_count = 0
    /\ future_map = <<>>
    /\ timings = <<>>
    /\ clock = 0
    /\ ret = <<>>
    /\ summary = <<>>
    /\ fn_args = <<>>
    /\ fn_result = <<>>

\* what the checks before the dispatch can find
PlaybookChecks == {"ok", "plays_none", "roles_missing"}

\* mutant: a dry run keeps the parallel flag it was given
RunPlaybookNoForce ==
    /\ pc = "run_playbook"
    /\ \E check \in PlaybookChecks :
          IF check # "ok"
          THEN ret' = <<1>> /\ pc' = "done" /\ UNCHANGED parallel
          ELSE IF jobs = <<>>
          THEN ret' = <<0>> /\ pc' = "done" /\ UNCHANGED parallel
          ELSE /\ UNCHANGED parallel
               /\ pc' = IF parallel THEN "start" ELSE "sequential"
               /\ UNCHANGED ret
    /\ UNCHANGED <<jobs, deps_raw, max_parallel, summary, dry_run, engine_invoked,
                   missing_targets, missing_deps, in_degree, edges, ready, results,
                   running, launched, stop_submissions, worker_count, future_map,
                   timings, clock, fn_args, fn_result>>

\* run_playbook up to the call of _run_sequential or _run_parallel
RunPlaybook ==
    /\ pc = "run_playbook"
    /\ \E check \in PlaybookChecks :
          IF check # "ok"
          THEN ret' = <<1>> /\ pc' = "done" /\ UNCHANGED parallel
          ELSE IF jobs = <<>>
          THEN ret' = <<0>> /\ pc' = "done" /\ UNCHANGED parallel
          ELSE /\ parallel' = (dry_run \/ parallel)
               /\ pc' = IF dry_run \/ parallel THEN "start" ELSE "sequential"
               /\ UNCHANGED ret
    /\ UNCHANGED <<jobs, deps_raw, max_parallel, summary, dry_run, engine_invoked,
                   missing_targets, missing_deps, in_degree, edges, ready, results,
                   running, launched, stop_submissions, worker_count, future_map,
                   timings, clock, fn_args, fn_result>>

\* _run_sequential: one engine call for the whole playbook, "r.rc or 0"
RunSequential ==
    /\ pc = "sequential"
    /\ engine_invoked' = TRUE
    /\ \E rc \in {0, 2} : ret' = <<rc>>
    /\ pc' = "done"
    /\ UNCHANGED <<jobs, deps_raw, max_parallel, summary, dry_run, parallel,
                   missing_targets, missing_deps, in_degree, edges, ready, results,
                   running, launched, stop_submissions, worker_count, future_map,
                   timings, clock, fn_args, fn_result>>

NextPlaybook ==
    \/ RunPlaybook
    \/ RunSequential
    \/ Start
    \/ Submit
    \/ \E idx \in InFlight : TaskRun(idx)
    \/ \E idx \in InFlight : Complete(idx)
    \/ Finish

SpecPlaybook == InitPlaybook /\ [][NextPlaybook]_vars

-----------------------------------------------------------------------------
(* _vars_match as a function of its arguments                              *)

VarKeys == {"k", "j"}

Dicts == UNION {[D -> JsonScalars] : D \in SUBSET VarKeys}

InitVars ==
    /\ pc = "vars_call"
    /\ fn_args \in Dicts \X Dicts
    /\ fn_result = <<>>
    /\ jobs = <<>>
    /\ deps_raw = <<>>
    /\ max_parallel = 0
    /\ dry_run = FALSE
    /\ parallel = FALSE
    /\ engine_invoked = FALSE
    /\ missing_targets = <<>>
    /\ missing_deps = <<>>
    /\ in_degree = <<>>
    /\ edges = <<>>
    /\ ready = <<>>
    /\ results = <<>>
    /\ running = {}
    /\ launched = {}
    /\ stop_submissions = FALSE
    /\ worker_count = 0
    /\ future_map = <<>>
    /\ timings = <<>>
    /\ clock = 0
    /\ ret = <<>>
    /\ summary = <<>>

VarsMatchCall ==
    /\ pc = "vars_call"
    /\ fn_result' = <<_vars_match(fn_args[1], fn_args[2])>>
    /\ pc' = "vars_ret"
    /\ UNCHANGED <<jobs, deps_raw, max_parallel, summary, dry_run, parallel, engine_invoked, missing_targets, missing_deps,
                   in_degree, edges, ready, results, running, launched,
                   stop_submissions, worker_count, future_map, timings, clock,
                   ret, fn_args>>

NextVars == VarsMatchCall

SpecVars == InitVars /\ [][NextVars]_vars

-----------------------------------------------------------------------------
(* _build_dependency_graph on one declaration with one prerequisite        *)

\* a job with vars
MkJobVars(role, host, job_vars) == [role |-> <<role>>, host |-> <<host>>, vars |-> job_vars]

ResolveJobs ==
    SeqsUpTo({MkJobVars("role1", "mac1", EmptyDict),
              MkJobVars("role1", "mac1", "k" :> "v"),
              MkJobVars("role1", "mac2", "k" :> "w"),
              MkJobVars("role2", "mac1", ("k" :> "v") @@ ("j" :> "w"))}, MaxHostJobs) \ {<<>>}

ResolveBases ==
    {<<"role1">>, <<"role2">>, <<"role3">>, <<"role1", "@", "mac1">>, <<"role1", "@", "mac2">>}

\* texts that are a JSON object
ObjectTexts ==
    {<<"{", "}">>,
     <<"{", "k", ":", "v", "}">>,
     <<"{", "k", ":", "null", "}">>,
     <<"{", "k", ":", "v", ",", "j", ":", "w", "}">>,
     <<"{", "k", ":", "w", ",", "k", ":", "v", "}">>}

\* texts that are not JSON
NotJsonTexts ==
    {<<>>,
     <<"{", "k", ":", "v">>,
     <<"{", "k", "v", "}">>,
     <<"{", "k", ":", "v", ",", "}">>,
     <<"{", "k", ":", "v", "}", ":vars=", "{", "}">>}

\* texts that are JSON but not an object: a string, null, arrays
NonObjectTexts == {<<"v">>, <<"null">>, <<"[", "]">>, <<"[", "v", "]">>}

VarTexts == ObjectTexts \cup NotJsonTexts \cup NonObjectTexts

ResolvePatterns ==
    ResolveBases \cup {b \o <<":vars=">> \o t : b \in ResolveBases, t \in VarTexts}

\* one side is any pattern, the other a plain role
ResolveInputs ==
    (ResolveJobs \X ResolvePatterns \X {<<"role1">>, <<"role2">>})
    \cup (ResolveJobs \X {<<"role1">>, <<"role2">>} \X ResolvePatterns)

InitResolve ==
    /\ pc = "resolve_call"
    /\ fn_args \in ResolveInputs
    /\ fn_result = <<>>
    /\ jobs = <<>>
    /\ deps_raw = <<>>
    /\ max_parallel = 0
    /\ dry_run = FALSE
    /\ parallel = FALSE
    /\ engine_invoked = FALSE
    /\ missing_targets = <<>>
    /\ missing_deps = <<>>
    /\ in_degree = <<>>
    /\ edges = <<>>
    /\ ready = <<>>
    /\ results = <<>>
    /\ running = {}
    /\ launched = {}
    /\ stop_submissions = FALSE
    /\ worker_count = 0
    /\ future_map = <<>>
    /\ timings = <<>>
    /\ clock = 0
    /\ ret = <<>>
    /\ summary = <<>>

\* the declaration {raw_key: [dep_raw]} goes through _build_dependency_graph;
\* the result keeps what _parse_target returned for the two patterns
ResolveCall ==
    /\ pc = "resolve_call"
    /\ LET js == fn_args[1]
           raw_key == fn_args[2]
           dep_raw == fn_args[3]
       IN fn_result' = <<[key |-> _parse_target(raw_key),
                          dep |-> _parse_target(dep_raw),
                          graph |-> _build_dependency_graph(js, << <<raw_key, <<dep_raw>> >> >>)]>>
    /\ pc' = "resolve_ret"
    /\ UNCHANGED <<jobs, deps_raw, max_parallel, summary, dry_run, parallel, engine_invoked, missing_targets, missing_deps,
                   in_degree, edges, ready, results, running, launched,
                   stop_submissions, worker_count, future_map, timings, clock,
                   ret, fn_args>>

NextResolve == ResolveCall

SpecResolve == InitResolve /\ [][NextResolve]_vars

-----------------------------------------------------------------------------
(* generate_pytest_command.py: build_pytest_args                           *)
(* A mapping with ordered keys is a sequence of <<key, value>> pairs.      *)

\* str.strip(): the blanks at both ends removed
RECURSIVE Strip(_)
Strip(s) ==
    IF s = <<>> THEN s
    ELSE IF Head(s) = " " THEN Strip(Tail(s))
    ELSE IF s[Len(s)] = " " THEN Strip(SubSeq(s, 1, Len(s) - 1))
    ELSE s

\* s.split(sep)
RECURSIVE Split(_, _)
Split(s, sep) ==
    IF Contains(s, sep)
    THEN <<Before(s, sep)>> \o Split(After(s, sep), sep)
    ELSE <<s>>

\* the concatenation of the lists of the list ss
RECURSIVE Flatten(_)
Flatten(ss) == IF ss = <<>> THEN <<>> ELSE Head(ss) \o Flatten(Tail(ss))

\* hosts_field is None, a string, or a list of strings
normalize_hosts(hosts_field) ==
    LET of_str(s) ==
            LET parts == Split(s, ",")
            IN SelectSeq([i \in 1..Len(parts) |-> Strip(parts[i])], LAMBDA h : h # <<>>)
    IN IF hosts_field.t = "str" THEN of_str(hosts_field.s)
       ELSE IF hosts_field.t = "list"
       THEN Flatten([i \in 1..Len(hosts_field.items) |-> of_str(hosts_field.items[i])])
       ELSE <<>>

\* entry is a string, a dict or anything else; the result is (role_name, vars)
extract_role(entry) ==
    IF entry.t = "str" THEN [role_name |-> entry.s, vars |-> <<>>]
    ELSE IF entry.t # "dict" THEN [role_name |-> <<>>, vars |-> <<>>]
    ELSE LET d == entry.d
             get(k) == IF k \in DOMAIN d THEN d[k] ELSE <<>>
             named == IF get("role") # <<>> THEN get("role") ELSE get("name")
             role_name == IF named = <<>> /\ Cardinality(DOMAIN d) = 1
                          THEN <<CHOOSE k \in DOMAIN d : TRUE>>
                          ELSE named
         IN [role_name |-> role_name, vars |-> get("vars")]

\* {**a, **b}: the keys of a in their order with the values of b where b has
\* them, then the other keys of b
MergeVars(a, b) ==
    LET in_b(k) == \E j \in 1..Len(b) : b[j][1] = k
        from_b(k) == b[CHOOSE j \in 1..Len(b) : b[j][1] = k][2]
        in_a(k) == \E j \in 1..Len(a) : a[j][1] = k
    IN [i \in 1..Len(a) |-> IF in_b(a[i][1]) THEN <<a[i][1], from_b(a[i][1])>> ELSE a[i]]
       \o SelectSeq(b, LAMBDA kv : ~in_a(kv[1]))

\* the (role, host, vars) tuples of a play
collect_tests(play) ==
    LET hosts == normalize_hosts(play.hosts)
        of_entry(entry) ==
            LET er == extract_role(entry)
            IN IF er.role_name = <<>> THEN <<>>
               ELSE [h \in 1..Len(hosts) |->
                        [role |-> er.role_name, host |-> hosts[h],
                         vars |-> MergeVars(play.vars, er.vars)]]
    IN Flatten([i \in 1..Len(play.roles) |-> of_entry(play.roles[i])])

\* json.dumps(vars_dict, separators=(",", ":"))
RECURSIVE JsonDumpsMembers(_)
JsonDumpsMembers(kvs) ==
    IF kvs = <<>> THEN <<>>
    ELSE <<kvs[1][1], ":", kvs[1][2]>>
         \o (IF Len(kvs) > 1 THEN <<",">> ELSE <<>>) \o JsonDumpsMembers(Tail(kvs))

JsonDumps(kvs) == <<"{">> \o JsonDumpsMembers(kvs) \o <<"}">>

\* the "--test" argument of one tuple
TestArg(test) ==
    test.role \o <<":">> \o test.host
    \o (IF test.vars # <<>> THEN <<":vars=">> \o JsonDumps(test.vars) ELSE <<>>)

build_pytest_args(plays, include_pytest_executable, include_report) ==
    LET tests == Flatten([i \in 1..Len(plays) |-> collect_tests(plays[i])])
    IN (IF include_pytest_executable THEN << <<"pytest">> >> ELSE <<>>)
       \o << <<"-v">>, <<"-n">>, <<"auto">>, <<"--connection=ansible">>, <<"--force-ansible">> >>
       \o (IF include_report
           THEN << <<"--html">>, <<"reports/report.html">>, <<"--self-contained-html">> >>
           ELSE <<>>)
       \o Flatten([i \in 1..Len(tests) |-> << <<"--test">>, TestArg(tests[i]) >>])

StrEntry(s) == [t |-> "str", s |-> s]

RoleEntries ==
    {StrEntry(<<"role1">>),
     StrEntry(<<"nested", "/", "role3">>),
     [t |-> "dict", d |-> [role |-> <<"role2">>, vars |-> << <<"j", "w">> >>]],
     [t |-> "other"]}

HostFields ==
    {[t |-> "str", s |-> <<"mac1">>],
     [t |-> "str", s |-> <<"mac1", ",", " ", "mac2">>],
     [t |-> "none"]}

Plays ==
    [hosts : HostFields,
     roles : SeqsUpTo(RoleEntries, MaxRoleEntries),
     vars : {<<>>, << <<"k", "v">> >>}]

InitArgs ==
    /\ pc = "args_call"
    /\ fn_args \in SeqsUpTo(Plays, MaxPlays) \X BOOLEAN \X BOOLEAN
    /\ fn_result = <<>>
    /\ jobs = <<>>
    /\ deps_raw = <<>>
    /\ max_parallel = 0
    /\ dry_run = FALSE
    /\ parallel = FALSE
    /\ engine_invoked = FALSE
    /\ missing_targets = <<>>
    /\ missing_deps = <<>>
    /\ in_degree = <<>>
    /\ edges = <<>>
    /\ ready = <<>>
    /\ results = <<>>
    /\ running = {}
    /\ launched = {}
    /\ stop_submissions = FALSE
    /\ worker_count = 0
    /\ future_map = <<>>
    /\ timings = <<>>
    /\ clock = 0
    /\ ret = <<>>
    /\ summary = <<>>

BuildArgsCall ==
    /\ pc = "args_call"
    /\ fn_result' = <<build_pytest_args(fn_args[1], fn_args[2], fn_args[3])>>
    /\ pc' = "args_ret"
    /\ UNCHANGED <<jobs, deps_raw, max_parallel, summary, dry_run, parallel, engine_invoked,
                   missing_targets, missing_deps, in_degree, edges, ready, results,
                   running, launched, stop_submissions, worker_count, future_map,
                   timings, clock, ret, fn_args>>

NextArgs == BuildArgsCall

SpecArgs == InitArgs /\ [][NextArgs]_vars

-----------------------------------------------------------------------------
(* Vocabulary of the properties                                            *)

AllJobs == Indices(jobs)

\* the control loop has processed the completion of idx
Processed(idx) == idx \in launched /\ idx \notin InFlight

\* idx has been appended to the ready queue at some point
MadeReady(idx) == idx \in Range(ready) \/ idx \in launched

\* _run_parallel got past graph construction and the initial-ready check
LoopEntered == worker_count > 0

FailureObserved == \E i \in 1..Len(results) : results[i][2] # 0

\* the labels under which results holds a record
RecordedLabels == {results[i][1] : i \in 1..Len(results)}

TerminalRecord(idx) == display_labels(jobs)[idx] \in RecordedLabels

NotRunRecord(idx) ==
    display_labels(jobs)[idx] \o <<" (not run)">> \in RecordedLabels

\* the number of records that results holds under the label lbl
RecordsOf(lbl) == Cardinality({i \in 1..Len(results) : results[i][1] = lbl})

\* the state of job idx in the per-job state machine
JobState(idx) ==
    IF idx \in InFlight THEN "running"
    ELSE IF idx \in launched THEN "finished"
    ELSE IF idx \in Range(ready) THEN "ready"
    ELSE "pending"

JobStateSteps ==
    {<<"pending", "ready">>, <<"ready", "running">>, <<"running", "finished">>}

RemoveAt(s, i) == SubSeq(s, 1, i - 1) \o SubSeq(s, i + 1, Len(s))

\* the declarations without declaration i
WithoutDecl(deps, i) == RemoveAt(deps, i)

\* the declarations without entry j of declaration i
WithoutPrereq(deps, i, j) == [deps EXCEPT ![i] = <<@[1], RemoveAt(@[2], j)>>]

\* the target pattern of declaration i resolves to at least one job
TargetResolves(i) ==
    LET p == _parse_target(deps_raw[i][1])
    IN \E idx \in AllJobs :
          /\ (IF Contains(p.base, "@") THEN BaseLabel(Job(jobs, idx)) = p.base
              ELSE Job(jobs, idx).role = p.base)
          /\ \A k \in DOMAIN p.vars :
                k \in DOMAIN Job(jobs, idx).vars /\ Job(jobs, idx).vars[k] = p.vars[k]

\* entry j of declaration i names a role that no job has
NamesMissingRole(i, j) ==
    LET p == _parse_target(deps_raw[i][2][j])
    IN \A idx \in AllJobs : Job(jobs, idx).role # Before(p.base, "@")

\* entry j of declaration i is role@host, no job has that base label, and the
\* role has a job on another host
HostMiss(i, j) ==
    LET p == _parse_target(deps_raw[i][2][j])
    IN /\ Contains(p.base, "@")
       /\ \A idx \in AllJobs : BaseLabel(Job(jobs, idx)) # p.base
       /\ \E idx \in AllJobs : Job(jobs, idx).role = Before(p.base, "@")

\* the prerequisite entries <<declaration, position>> of the declarations
Entries ==
    UNION {{<<i, j>> : j \in 1..Len(deps_raw[i][2])} : i \in 1..Len(deps_raw)}

\* B can be reached from A along one or more edges of the graph e
RECURSIVE ReachIn(_, _, _, _)
ReachIn(e, A, B, n) ==
    \/ B \in Range(e[A])
    \/ /\ n > 0
       /\ \E M \in Range(e[A]) : ReachIn(e, M, B, n - 1)

HasCycle(e) == \E A \in DOMAIN e : ReachIn(e, A, A, Cardinality(DOMAIN e))

-----------------------------------------------------------------------------
(* Properties                                                              *)

\* C1: for every edge A -> B of the dependency graph, B is not in the ready
\* queue and has not been launched unless the control loop has processed the
\* completion of A.
C1_DependentAfterPrerequisite ==
    \A A \in DOMAIN edges : \A B \in Range(edges[A]) :
        MadeReady(B) => Processed(A)

C1_Witness ==
    \E A \in DOMAIN edges : \E B \in Range(edges[A]) :
        A # B /\ B \in launched /\ Cardinality(InFlight) > 0

\* C2: once a failure has been recorded (a non-zero rc or an exception), no
\* step submits a job: launched and the set of in-flight futures do not grow.
C2_GlobalHalt ==
    [][FailureObserved =>
          /\ launched' \subseteq launched
          /\ DOMAIN future_map' \subseteq DOMAIN future_map]_vars

\* a failure was observed while a job sits in the ready queue and a worker
\* slot is free
C2_Witness ==
    /\ pc = "loop"
    /\ FailureObserved
    /\ ready # <<>>
    /\ Cardinality(InFlight) < worker_count
    /\ InFlight # {}

\* C3: after a failure has been observed, every launched job is either still
\* in flight with the control loop still running, or has its terminal record
\* under its own display label; it never gets a "(not run)" record.
C3_GracefulDrain ==
    stop_submissions =>
        LET dl == display_labels(jobs)
            recorded == RecordedLabels
        IN \A idx \in launched :
              /\ (idx \in InFlight /\ pc = "loop") \/ dl[idx] \in recorded
              /\ dl[idx] \o <<" (not run)">> \notin recorded

\* job j was in flight when the failure of job f was observed, and the run
\* ended with both recorded
C3_Witness ==
    /\ pc = "done"
    /\ \E f, j \in launched :
          /\ f # j
          /\ \E i \in 1..Len(results) :
                results[i] = <<display_labels(jobs)[f], 2>>
          /\ timings[j].start < timings[f].end[1]
          /\ timings[f].end[1] < timings[j].end[1]
          /\ TerminalRecord(j)

\* C4: when the run got past graph construction and the initial-ready check
\* and has ended, every job that was never launched has a "(not run)" result
\* with a non-zero status.
C4_NeverLaunchedIsNotRun ==
    (pc = "done" /\ LoopEntered) =>
        \A idx \in AllJobs \ launched :
            \E i \in 1..Len(results) :
                /\ results[i][1] = display_labels(jobs)[idx] \o <<" (not run)">>
                /\ results[i][2] # 0

\* C5: the value returned is 0 exactly when the graph was built without
\* missing dependencies and every job was launched and completed with
\* status 0, and 1 otherwise.
C5_ExitCode ==
    pc = "done" =>
        ret = IF /\ missing_deps = <<>>
                 /\ launched = AllJobs
                 /\ \A i \in 1..Len(results) : results[i][2] = 0
              THEN <<0>> ELSE <<1>>

\* C6 as stated: whenever some prerequisite entry names a role that no job
\* has, no job is ever launched and the run returns 1.
C6_AnyMissingRoleAborts ==
    (\E e \in Entries : NamesMissingRole(e[1], e[2])) =>
        /\ launched = {}
        /\ pc \in {"start", "done"}
        /\ pc = "done" => ret = <<1>>

\* C6, amended: whenever some prerequisite entry of a declaration whose
\* target resolves names a role that no job has, no job is ever launched and
\* the run returns 1.
C6_MissingRoleAborts ==
    (\E e \in Entries : TargetResolves(e[1]) /\ NamesMissingRole(e[1], e[2])) =>
        /\ launched = {}
        /\ pc \in {"start", "done"}
        /\ pc = "done" => ret = <<1>>

C6_Witness ==
    /\ pc = "done"
    /\ \E e \in Entries : TargetResolves(e[1]) /\ NamesMissingRole(e[1], e[2])
    /\ missing_deps # <<>>
    /\ Len(jobs) > 1

\* C7 as stated: a declaration whose target resolves to no job is recorded
\* as a missing target, a graph is still returned, and the run returns 0 if
\* no job fails.
C7_MissingTargetExitsZero ==
    \A i \in 1..Len(deps_raw) :
        (~TargetResolves(i) /\ pc = "done") =>
            /\ deps_raw[i][1] \in Range(missing_targets)
            /\ missing_deps = <<>>
            /\ ~FailureObserved => ret = <<0>>

\* C7, amended: a declaration whose target resolves to no job is recorded as
\* a missing target and changes nothing else: edges, in-degrees and missing
\* dependencies are those of the declarations without it, so a graph is
\* returned unless another declaration has a missing dependency; the run
\* returns 0 if it enters the scheduling loop and no job fails.
C7_MissingTargetLenient ==
    \A i \in 1..Len(deps_raw) :
        ~TargetResolves(i) =>
            /\ pc = "start" =>
                  LET g == _build_dependency_graph(jobs, deps_raw)
                      h == _build_dependency_graph(jobs, WithoutDecl(deps_raw, i))
                  IN /\ deps_raw[i][1] \in Range(g.missing_targets)
                     /\ g.in_degree = h.in_degree
                     /\ g.edges = h.edges
                     /\ g.missing_deps = h.missing_deps
            /\ pc = "done" =>
                  LET h == _build_dependency_graph(jobs, WithoutDecl(deps_raw, i))
                  IN /\ deps_raw[i][1] \in Range(missing_targets)
                     /\ missing_deps = h.missing_deps
                     /\ missing_deps = <<>> => edges = h.edges
                     /\ (LoopEntered /\ ~FailureObserved) => ret = <<0>>

\* a declaration with a missing target, with prerequisites, next to another
\* declaration; the run ended with every job launched and returned 0
C7_Witness ==
    /\ pc = "done"
    /\ Len(deps_raw) > 1
    /\ \E i \in 1..Len(deps_raw) : ~TargetResolves(i) /\ deps_raw[i][2] # <<>>
    /\ Len(jobs) > 1
    /\ launched = AllJobs
    /\ ret = <<0>>

\* C8 as stated: a role@host prerequisite whose base label has no job while
\* the role has one on another host is recorded as a missing target, the run
\* is not aborted and all jobs launch.
C8_HostMissAllLaunch ==
    \A e \in Entries :
        (HostMiss(e[1], e[2]) /\ pc = "done") =>
            /\ deps_raw[e[1]][2][e[2]] \in Range(missing_targets)
            /\ LoopEntered
            /\ launched = AllJobs

\* C8, amended: such an entry, in a declaration whose target resolves, is
\* recorded as a missing target and never as a missing dependency; edges,
\* in-degrees and missing dependencies are those of the declarations without
\* the entry; the run is aborted only if it is aborted without the entry; and
\* all jobs launch and the run returns 0 when no entry is a missing
\* dependency, the graph has no cycle and no job fails.
C8_HostMissLenient ==
    \A e \in Entries :
        (HostMiss(e[1], e[2]) /\ TargetResolves(e[1])) =>
            LET dep_raw == deps_raw[e[1]][2][e[2]]
                h == _build_dependency_graph(jobs, WithoutPrereq(deps_raw, e[1], e[2]))
            IN /\ pc = "start" =>
                     LET g == _build_dependency_graph(jobs, deps_raw)
                     IN /\ dep_raw \in Range(g.missing_targets)
                        /\ g.in_degree = h.in_degree
                        /\ g.edges = h.edges
                        /\ g.missing_deps = h.missing_deps
               /\ pc = "done" =>
                     /\ dep_raw \in Range(missing_targets)
                     /\ dep_raw \notin Range(missing_deps)
                     /\ missing_deps = h.missing_deps
                     /\ missing_deps = <<>> => edges = h.edges
                     /\ ~LoopEntered =>
                           \/ h.missing_deps # <<>>
                           \/ \A idx \in AllJobs : h.in_degree[idx] # 0
                     /\ (missing_deps = <<>> /\ ~HasCycle(edges) /\ ~FailureObserved) =>
                           /\ LoopEntered
                           /\ launched = AllJobs
                           /\ ret = <<0>>

\* the declaration holds the role@host entry and another entry that made an
\* edge; every job was launched
C8_Witness ==
    /\ pc = "done"
    /\ \E e \in Entries :
          /\ HostMiss(e[1], e[2])
          /\ TargetResolves(e[1])
          /\ Len(deps_raw[e[1]][2]) > 1
    /\ \E A \in DOMAIN edges : edges[A] # <<>>
    /\ launched = AllJobs
    /\ ret = <<0>>

\* C9: _vars_match returns true exactly when every key of the filter is a
\* key of the job's vars with an equal value.
C9_SubsetMatch ==
    pc = "vars_ret" =>
        fn_result = << \A k \in DOMAIN fn_args[2] :
                          k \in DOMAIN fn_args[1] /\ fn_args[1][k] = fn_args[2][k] >>

\* C10: the number of in-flight jobs never exceeds
\* max(1, min(max_parallel, number of jobs)).
C10_BoundedConcurrency ==
    /\ running = InFlight
    /\ Cardinality(InFlight) <=
          (IF max_parallel < 1 \/ Len(jobs) < 1 THEN 1
           ELSE IF max_parallel < Len(jobs) THEN max_parallel ELSE Len(jobs))

\* max_parallel is zero or negative, one job is in flight and another waits
\* in the ready queue for the slot
C10_Witness ==
    /\ max_parallel < 1
    /\ Cardinality(InFlight) = 1
    /\ ready # <<>>
    /\ ~stop_submissions

\* s is an initial segment of t
IsPrefix(s, t) == Len(s) <= Len(t) /\ SubSeq(t, 1, Len(s)) = s

\* the position of the last occurrence of x in s
LastPos(s, x) == CHOOSE i \in 1..Len(s) : s[i] = x /\ \A j \in (i + 1)..Len(s) : s[j] # x

\* C11 as stated: a job that is launched has the lowest index of the jobs in
\* the ready queue.
C11_FifoByIndex ==
    [][\A idx \in launched' \ launched : \A k \in Range(ready) : idx <= k]_vars

\* C11, amended: launch order among ready jobs is FIFO by the order in which
\* they entered the ready queue: the job launched is the oldest entry, entries
\* never overtake each other, and the jobs that become ready on the completion
\* of a prerequisite enter in the order of that prerequisite's edge list.
C11_FifoByReadiness ==
    [][/\ \A idx \in launched' \ launched :
             ready # <<>> /\ idx = Head(ready) /\ ready' = Tail(ready)
       /\ (pc = "loop" /\ launched' = launched) =>
             /\ IsPrefix(ready, ready')
             /\ \A idx \in InFlight \ DOMAIN future_map' :
                   \A a, b \in (Len(ready) + 1)..Len(ready') :
                      a < b =>
                         /\ ready'[a] \in Range(edges[idx])
                         /\ ready'[b] \in Range(edges[idx])
                         /\ LastPos(edges[idx], ready'[a]) < LastPos(edges[idx], ready'[b])]_vars

\* two jobs became ready together on the completion of their common
\* prerequisite, the one with the higher index ahead in the queue
C11_Witness ==
    /\ pc = "loop"
    /\ Len(ready) = 2
    /\ ready[1] > ready[2]
    /\ \E A \in launched \ InFlight : edges[A] = ready

\* C12: when the graph has been built, the initial ready queue holds exactly
\* the jobs with in-degree 0 in ascending index order; if it is empty,
\* _run_parallel returns 1 at once and no job is ever launched; otherwise the
\* scheduling loop is entered.
C12_Initialization ==
    [][/\ (pc = "start" /\ missing_deps' = <<>>) =>
             /\ ready' = Ascending({j \in AllJobs : in_degree'[j] = 0})
             /\ launched' = {}
             /\ IF ready' = <<>>
                THEN pc' = "done" /\ ret' = <<1>>
                ELSE pc' = "loop" /\ ret' = <<>>
       /\ pc = "done" => launched' = launched]_vars

\* every job of a run of several jobs has a prerequisite: the run has ended
\* with 1 and nothing launched
C12_Witness ==
    /\ pc = "done"
    /\ Len(jobs) > 1
    /\ missing_deps = <<>>
    /\ \A j \in DOMAIN in_degree : in_degree[j] > 0
    /\ DOMAIN in_degree = AllJobs
    /\ ready = <<>>
    /\ launched = {}
    /\ ret = <<1>>

\* the jobs selected by the pattern raw: those of the base label (base with
\* "@") or of the role (base without), that pass the vars filter
Selected(raw) ==
    LET p == _parse_target(raw)
    IN {idx \in AllJobs :
           /\ IF Contains(p.base, "@")
              THEN Job(jobs, idx).role \o <<"@">> \o Job(jobs, idx).host = p.base
              ELSE Job(jobs, idx).role = p.base
           /\ _vars_match(Job(jobs, idx).vars, p.vars)}

\* the number of occurrences of x in the list s
Occurrences(s, x) == Cardinality({k \in 1..Len(s) : s[k] = x})

\* the edges into B of the graph e, as <<source, position>>
EdgesInto(e, B) ==
    UNION {{<<A, k>> : k \in {n \in 1..Len(e[A]) : e[A][n] = B}} : A \in DOMAIN e}

\* C13: in the graph that _build_dependency_graph returns, the edge list of A
\* holds B once for each prerequisite entry that selects A in a declaration
\* whose target pattern selects B (the full cross product of matching
\* targets and matching prerequisites, entry by entry), and in_degree[B] is
\* the number of occurrences of B over all edge lists.
C13_CrossProduct ==
    [][(pc = "start" /\ missing_deps' = <<>>) =>
          /\ DOMAIN edges' = AllJobs
          /\ DOMAIN in_degree' = AllJobs
          /\ \A A, B \in AllJobs :
                Occurrences(edges'[A], B) =
                   Cardinality({e \in Entries :
                                  /\ B \in Selected(deps_raw[e[1]][1])
                                  /\ A \in Selected(deps_raw[e[1]][2][e[2]])})
          /\ \A B \in AllJobs :
                in_degree'[B] = Cardinality(EdgesInto(edges', B))]_vars

\* a declaration whose target selects two jobs and whose prerequisite
\* selects another: the graph holds the two edges
C13_Witness ==
    /\ pc = "loop"
    /\ \E A \in AllJobs : \E B, C \in AllJobs :
          /\ B # C /\ A # B /\ A # C
          /\ Occurrences(edges[A], B) = 1
          /\ Occurrences(edges[A], C) = 1
    /\ \E e \in Entries : Cardinality(Selected(deps_raw[e[1]][1])) > 1

\* the jobs of js that base selects: those of that base label when base
\* holds "@", those of that role on any host otherwise
BaseSelected(js, base) ==
    {idx \in Indices(js) :
        IF \E n \in 1..Len(base) : base[n] = "@"
        THEN Job(js, idx).role \o <<"@">> \o Job(js, idx).host = base
        ELSE Job(js, idx).role = base}

\* the jobs of js that the parsed pattern p resolves to
Resolved(js, p) ==
    {idx \in BaseSelected(js, p.base) : _vars_match(Job(js, idx).vars, p.vars)}

NoEdges(g) == \A A \in DOMAIN g.edges : g.edges[A] = <<>>

\* C14: the target pattern and the prerequisite pattern of a declaration
\* resolve the same way: the base selects the jobs of that base label (with
\* "@") or of that role on any host (without), restricted to the jobs that
\* pass the vars filter, an empty filter keeping them all; the graph has an
\* edge from exactly the resolved prerequisites to exactly the resolved
\* targets, and none when either set is empty.
C14_TargetResolution ==
    pc = "resolve_ret" =>
        LET js == fn_args[1]
            r == fn_result[1]
            T == Resolved(js, r.key)
            D == Resolved(js, r.dep)
        IN /\ r.key.vars = EmptyDict => T = BaseSelected(js, r.key.base)
           /\ r.dep.vars = EmptyDict => D = BaseSelected(js, r.dep.base)
           /\ T = {} => NoEdges(r.graph) /\ fn_args[2] \in Range(r.graph.missing_targets)
           /\ (T # {} /\ D = {}) =>
                 /\ NoEdges(r.graph)
                 /\ fn_args[3] \in Range(r.graph.missing_targets) \cup Range(r.graph.missing_deps)
           /\ (T # {} /\ D # {}) =>
                 \A A, B \in Indices(js) :
                    Occurrences(r.graph.edges[A], B) = IF A \in D /\ B \in T THEN 1 ELSE 0

\* a role pattern with a vars filter selected some but not all jobs of the
\* role, on two hosts, as the target of an edge
C14_Witness ==
    /\ pc = "resolve_ret"
    /\ LET js == fn_args[1]
           r == fn_result[1]
       IN /\ r.key.vars # EmptyDict
          /\ ~NoEdges(r.graph)
          /\ Resolved(js, r.key) # BaseSelected(js, r.key.base)
          /\ Cardinality({Job(js, idx).host : idx \in BaseSelected(js, r.key.base)}) > 1

\* C15: when the control loop handles a future that raised, the job gets a
\* record with non-zero status under its display label, stop_submissions is
\* set, _run_parallel does not return at that step (the exception does not
\* leave it), the other futures stay in flight, and the loop is not left
\* while a future is in flight; apart from the status recorded, the step is
\* the one a non-zero exit status makes.
C15_FaultIsFailure ==
    [][/\ \A idx \in InFlight \ DOMAIN future_map' :
             future_map[idx].state = "raised" =>
                /\ Len(results') = Len(results) + 1
                /\ results'[Len(results')][1] = display_labels(jobs)[idx]
                /\ results'[Len(results')][2] # 0
                /\ SubSeq(results', 1, Len(results)) = results
                /\ stop_submissions'
                /\ pc' = "loop"
                /\ ret' = <<>>
                /\ DOMAIN future_map' = InFlight \ {idx}
                /\ \A j \in DOMAIN future_map' : future_map'[j] = future_map[j]
                /\ LET st == Release([in_degree |-> in_degree, ready |-> ready], edges[idx], 1)
                   IN in_degree' = st.in_degree /\ ready' = st.ready
       /\ (pc = "loop" /\ pc' = "done") => InFlight = {}]_vars

\* the fault of a job has been handled while another job is still in flight
C15_Witness ==
    /\ pc = "loop"
    /\ stop_submissions
    /\ \E i \in 1..Len(results) : results[i][2] = 1
    /\ \A i \in 1..Len(results) : results[i][2] # 2
    /\ InFlight # {}

BadVarTexts == NotJsonTexts \cup NonObjectTexts

\* what C17 says of the pattern raw, parsed as p, resolved over js with the
\* other side of the declaration resolving to the jobs other
LenientFor(js, raw, p, g, other, as_target) ==
    \A b \in ResolveBases, t \in BadVarTexts :
        raw = b \o <<":vars=">> \o t =>
            /\ p = [base |-> b, vars |-> EmptyDict]
            /\ (other # {} /\ (as_target \/ BaseSelected(js, b) # {})) =>
                  \A x \in BaseSelected(js, b), y \in other :
                     IF as_target
                     THEN Occurrences(g.edges[y], x) = 1
                     ELSE Occurrences(g.edges[x], y) = 1

\* C17: _parse_target returns a result for every pattern; when the text
\* after the first ":vars=" is not JSON or is JSON that is not an object, the
\* filter returned is empty and the base is the text before it, so the
\* pattern selects every job of its base selector, as a target and as a
\* prerequisite.
C17_ParseLeniency ==
    pc = "resolve_ret" =>
        LET js == fn_args[1]
            r == fn_result[1]
        IN /\ DOMAIN r.key = {"base", "vars"}
           /\ DOMAIN r.dep = {"base", "vars"}
           /\ LenientFor(js, fn_args[2], r.key, r.graph, Resolved(js, r.dep), TRUE)
           /\ LenientFor(js, fn_args[3], r.dep, r.graph, Resolved(js, r.key), FALSE)

\* a target pattern whose vars text is not a JSON object selected two jobs
\* with different vars, and the graph has their edges
C17_Witness ==
    /\ pc = "resolve_ret"
    /\ \E b \in ResolveBases, t \in BadVarTexts :
          /\ fn_args[2] = b \o <<":vars=">> \o t
          /\ t # <<>>
          /\ Cardinality({Job(fn_args[1], idx).vars : idx \in BaseSelected(fn_args[1], b)}) > 1
    /\ ~NoEdges(fn_result[1].graph)

\* idx is the k-th job, in registration order, of its role and host
Rank(idx) ==
    Cardinality({j \in 0..idx : /\ Job(jobs, j).role = Job(jobs, idx).role
                                /\ Job(jobs, j).host = Job(jobs, idx).host})

SameBase(i, j) ==
    Job(jobs, i).role = Job(jobs, j).role /\ Job(jobs, i).host = Job(jobs, j).host

\* C18: the k-th job of a base label role@host has the display label
\* role@host when k = 1 and "role@host (run k)" when k > 1, and the log label
\* "role@host#(k-1)"; two jobs that share a base label have different display
\* labels and different log labels.
C18_DuplicateIdentities ==
    pc \in {"start", "done"} =>
        LET dl == display_labels(jobs)
            ll == [idx \in AllJobs |-> LogLabel(jobs, idx)]
        IN /\ \A idx \in AllJobs :
                 LET base == Job(jobs, idx).role \o <<"@">> \o Job(jobs, idx).host
                     k == Rank(idx)
                 IN /\ dl[idx] =
                          IF k = 1 THEN base ELSE base \o <<" (run ", ToString(k), ")">>
                    /\ ll[idx] = base \o <<"#", ToString(k - 1)>>
           /\ \A i, j \in AllJobs :
                 (i # j /\ SameBase(i, j)) => (dl[i] # dl[j] /\ ll[i] # ll[j])

\* three jobs of one role on one host have run and each has its record
C18_Witness ==
    /\ pc = "done"
    /\ Len(jobs) > 2
    /\ \A i, j \in AllJobs : SameBase(i, j)
    /\ Len(results) = Len(jobs)
    /\ \A i, j \in 1..Len(results) : i # j => results[i][1] # results[j][1]

\* the arguments that follow a "--test" in the list args
TestArgsOf(args) ==
    LET at == SelectSeq([i \in 1..Len(args) |-> i],
                        LAMBDA i : i > 1 /\ args[i - 1] = <<"--test">>)
    IN [n \in 1..Len(at) |-> args[at[n]]]

\* C19: the role part of every --test argument is the final path component
\* of the role name; for the play {hosts: mac1, roles: [nested/role3]} the
\* only --test argument is role3:mac1.
C19_NestedRoleNormalized ==
    pc = "args_ret" =>
        /\ \A n \in 1..Len(TestArgsOf(fn_result[1])) :
              ~Contains(Before(TestArgsOf(fn_result[1])[n], ":"), "/")
        /\ fn_args[1] = << [hosts |-> [t |-> "str", s |-> <<"mac1">>],
                            roles |-> <<StrEntry(<<"nested", "/", "role3">>)>>,
                            vars |-> <<>>] >>
              => TestArgsOf(fn_result[1]) = << <<"role3", ":", "mac1">> >>

\* C20: in the scheduling loop and after it, in_degree[j] is the number of
\* edges into j whose source has not had its completion processed, and is
\* never negative; the completion of a job, failed or not, takes its edges
\* off the count of each dependent; the jobs appended to the ready queue at
\* a step are exactly those whose count drops to 0 at that step, once each.
C20_InDegreeAccounting ==
    [][/\ (pc' \in {"loop", "done"} /\ worker_count' > 0) =>
             \A j \in AllJobs :
                /\ in_degree'[j] >= 0
                /\ in_degree'[j] =
                      Cardinality({e \in EdgesInto(edges', j) :
                                     ~(e[1] \in launched' /\ e[1] \notin DOMAIN future_map')})
       /\ pc = "loop" =>
             /\ \A idx \in InFlight \ DOMAIN future_map' : \A j \in AllJobs :
                   in_degree'[j] = in_degree[j] - Occurrences(edges[idx], j)
             /\ launched' = launched =>
                   LET new == SubSeq(ready', Len(ready) + 1, Len(ready'))
                   IN /\ IsPrefix(ready, ready')
                      /\ Range(new) = {j \in AllJobs : in_degree[j] > 0 /\ in_degree'[j] = 0}
                      /\ Len(new) = Cardinality(Range(new))]_vars

\* a prerequisite has failed and its dependent, which it precedes twice or
\* which has another prerequisite, has had the edges of the failed job
\* taken off its count
C20_Witness ==
    /\ pc \in {"loop", "done"}
    /\ worker_count > 0
    /\ \E A \in launched \ InFlight : \E j \in Range(edges[A]) :
          /\ \E i \in 1..Len(results) :
                results[i][1] = display_labels(jobs)[A] /\ results[i][2] # 0
          /\ Cardinality(EdgesInto(edges, j)) > 1
          /\ in_degree[j] < Cardinality(EdgesInto(edges, j))

\* C21: every step leaves the state of a job as it is or moves it one step
\* along pending -> ready -> running -> finished; a job is appended to the
\* ready queue only if it was never in it before, is submitted only from the
\* head of the queue and only if it was never launched, and its completion
\* is handled only once, so that results never holds two records for it.
C21_JobStateAdvance ==
    [][/\ \A idx \in AllJobs :
            /\ JobState(idx)' # JobState(idx) =>
                  <<JobState(idx), JobState(idx)'>> \in JobStateSteps
            /\ Occurrences(ready', idx) <= 1
            /\ Occurrences(ready', idx) > Occurrences(ready, idx) => ~MadeReady(idx)
            /\ idx \in DOMAIN future_map' \ DOMAIN future_map =>
                  /\ idx \notin launched
                  /\ ready # <<>> /\ idx = Head(ready)
            /\ idx \in InFlight \ DOMAIN future_map' =>
                  /\ timings[idx].end = <<>>
                  /\ Len(results') = Len(results) + 1
       /\ pc' = "loop" =>
            Len(results') = Cardinality(launched' \ DOMAIN future_map')]_vars

\* a run of three jobs has ended with every job finished, one of them after
\* waiting for two prerequisites
C21_Witness ==
    /\ pc = "done"
    /\ Len(jobs) = 3
    /\ \A idx \in AllJobs :
          JobState(idx) = "finished" /\ RecordsOf(display_labels(jobs)[idx]) = 1
    /\ \E idx \in AllJobs :
          Cardinality({e[1] : e \in EdgesInto(edges, idx)}) = 2

\* C22: when a halted run has been finalized, results holds one entry for
\* each job: a launched job has its completion entry and no "(not run)"
\* entry, a job that was not launched has its "(not run)" entry and no
\* completion entry.
C22_NotRunTerminal ==
    (pc = "done" /\ LoopEntered /\ stop_submissions) =>
        /\ Len(results) = Len(jobs)
        /\ \A idx \in AllJobs :
              /\ idx \in launched => TerminalRecord(idx) /\ ~NotRunRecord(idx)
              /\ idx \notin launched => NotRunRecord(idx) /\ ~TerminalRecord(idx)

\* C23: when the run has ended, every job that succeeded is listed under
\* "Succeeded" with its own duration, its end time minus its start time.
C23_SummaryFidelity ==
    (pc = "done" /\ LoopEntered) =>
        LET dl == display_labels(jobs)
        IN \A idx \in launched :
              (\E i \in 1..Len(results) : results[i] = <<dl[idx], 0>>) =>
                 /\ timings[idx].duration = <<timings[idx].end[1] - timings[idx].start>>
                 /\ \E k \in 1..Len(summary) :
                       summary[k] = <<dl[idx], timings[idx].duration[1]>>

\* C24: when the control thread keeps running and every launched task ends,
\* _run_parallel returns, whatever the graph and whichever tasks fail, and
\* no task is in flight once it has returned.
C24_Termination ==
    /\ <>(pc = "done")
    /\ [](pc = "done" => future_map = <<>> /\ running = {})

\* the loop has ended after a failure with a job still in the ready queue
C24_Witness ==
    /\ pc = "done"
    /\ LoopEntered
    /\ stop_submissions
    /\ ready # <<>>
    /\ future_map = <<>>

\* C25: a job B that some prerequisite precedes more than once has, in the
\* loop and after it, an in-degree equal to the number of its incoming
\* edges, duplicates included, whose source is not yet processed; it is in
\* the ready queue at most once, and it has been made ready exactly when
\* every distinct prerequisite of it has been processed.
C25_ParallelEdges ==
    (pc \in {"loop", "done"} /\ LoopEntered) =>
        \A B \in AllJobs :
            (\E A \in AllJobs \ {B} : \E m, n \in 1..Len(edges[A]) :
                 m < n /\ edges[A][m] = B /\ edges[A][n] = B) =>
                /\ in_degree[B] =
                      Cardinality({e \in EdgesInto(edges, B) : ~Processed(e[1])})
                /\ Occurrences(ready, B) <= 1
                /\ B \in Range(ready) => B \notin launched
                /\ MadeReady(B) <=> \A e \in EdgesInto(edges, B) : Processed(e[1])

\* a job with two edges from the same prerequisite has run to its end
C25_Witness ==
    /\ pc = "done"
    /\ LoopEntered
    /\ \E B \in AllJobs : \E A \in AllJobs \ {B} :
          /\ Occurrences(edges[A], B) = 2
          /\ in_degree[B] = 0
          /\ Processed(A)
          /\ Processed(B)

\* C26: a step in which a task comes to its end (its future goes from running
\* to returned or raised) leaves the ready queue, the in-degree table, the
\* running set, the stop flag, the results list, the timings table and the
\* launched set as they are; it changes nothing of the futures but the
\* outcome of its own. Every step that changes one of these structures is
\* therefore a step of the control loop.
C26_ControlLoopOwnership ==
    [][\A idx \in InFlight :
          (/\ future_map[idx].state = "running"
           /\ idx \in DOMAIN future_map'
           /\ future_map'[idx].state # "running") =>
             /\ UNCHANGED <<ready, in_degree, running, stop_submissions, results,
                            timings, launched, edges, summary, ret, pc>>
             /\ DOMAIN future_map' = DOMAIN future_map
             /\ \A j \in InFlight \ {idx} : future_map'[j] = future_map[j]
             /\ future_map'[idx] \in Outcomes]_vars

\* one task has raised and another has returned, both still unprocessed,
\* while nothing has been recorded yet
C26_Witness ==
    /\ pc = "loop"
    /\ results = <<>>
    /\ ~stop_submissions
    /\ \E i, j \in InFlight :
          /\ future_map[i].state = "raised"
          /\ future_map[j].state = "returned"
          /\ {i, j} \subseteq running

\* C27: once the metadata is prepared, any two distinct jobs have distinct log
\* paths, so that no two jobs running at the same time write to one file.
C27_LogsExclusive ==
    pc # "start" =>
        /\ \A i, j \in AllJobs : i # j => job_logs(jobs)[i] # job_logs(jobs)[j]
        /\ \A i, j \in running : i # j => job_logs(jobs)[i] # job_logs(jobs)[j]

====
